---- MODULE Spec2Model ----
(***************************************************************************)
(* A model of video_game.py: load_and_clean_data (two CSV files read into  *)
(* DataFrames, cleaned, and given a game_id per row) followed by           *)
(* setup_sqlite_database (three tables dropped, recreated and filled in    *)
(* the file video_games.db).                                               *)
(*                                                                         *)
(* A text is a tuple of one-character strings.  A DataFrame cell is a      *)
(* record [k, s, v]: k is its kind ("na", "str", "int", "float", "date"),  *)
(* s the characters of a "str" cell, v the value of a number or a date:    *)
(* <<n>> for an int, <<integer part, fraction digits...>> (no trailing     *)
(* zero) for a float, <<year, month, day>> for a date.                     *)
(***************************************************************************)
EXTENDS Integers, Sequences, FiniteSets, TLC

VARIABLES pc, csv_vgsales, csv_games, read_error, crash, df_vgsales, df_games,
          conn, acquired, closes, stmt, prior, db, failed, exc, exit_code, shown

vars == <<pc, csv_vgsales, csv_games, read_error, crash, df_vgsales, df_games,
          conn, acquired, closes, stmt, prior, db, failed, exc, exit_code, shown>>

(* Bounds of the explored inputs: rows per CSV file. *)
MaxSales == 3
MaxGames == 2

----------------------------------------------------------------------------
(* Texts *)

DigitChar == <<"0", "1", "2", "3", "4", "5", "6", "7", "8", "9">>
Digits == {DigitChar[i] : i \in 1..10}
DigitVal(c) == (CHOOSE i \in 1..10 : DigitChar[i] = c) - 1

UpperCh == <<"A", "B", "C", "D", "E", "F", "G", "H", "I", "J", "K", "L", "M",
             "N", "O", "P", "Q", "R", "S", "T", "U", "V", "W", "X", "Y", "Z">>
LowerCh == <<"a", "b", "c", "d", "e", "f", "g", "h", "i", "j", "k", "l", "m",
             "n", "o", "p", "q", "r", "s", "t", "u", "v", "w", "x", "y", "z">>

(* str.lower() on one character *)
LowerChar(c) ==
    IF \E i \in 1..26 : UpperCh[i] = c
    THEN LowerCh[CHOOSE i \in 1..26 : UpperCh[i] = c]
    ELSE c

(* The same function with every value computed once: a tuple, or a record *)
Tuple(f) == SubSeq(f, 1, Len(f))
Record(f) == f @@ [x \in {} |-> x]

Lower(s) == Tuple([i \in 1..Len(s) |-> LowerChar(s[i])])

(* str.strip(): leading and trailing blanks removed *)
Strip(s) ==
    LET ink == {i \in 1..Len(s) : s[i] /= " "}
    IN  IF ink = {} THEN <<>>
        ELSE LET lo == CHOOSE i \in ink : \A j \in ink : i <= j
                 hi == CHOOSE i \in ink : \A j \in ink : j <= i
             IN  SubSeq(s, lo, hi)

(* re.sub(r'[^0-9.]', '', s) *)
KeepDigitsAndPoint(s) ==
    LET Keep(c) == c \in Digits \/ c = "."
    IN  SelectSeq(s, Keep)

(* re.sub(r'[^0-9]', '', s) *)
KeepDigits(s) ==
    LET Keep(c) == c \in Digits
    IN  SelectSeq(s, Keep)

RECURSIVE DigitsValue(_)
DigitsValue(s) ==
    IF s = <<>> THEN 0
    ELSE 10 * DigitsValue(SubSeq(s, 1, Len(s) - 1)) + DigitVal(s[Len(s)])

RECURSIVE NatDigits(_)
(* the decimal digits of a natural number, as str(n) writes them *)
NatDigits(n) ==
    IF n < 10 THEN <<DigitChar[n + 1]>>
    ELSE Append(NatDigits(n \div 10), DigitChar[(n % 10) + 1])

RECURSIVE DropTrailingZeros(_)
DropTrailingZeros(ds) ==
    IF ds /= <<>> /\ ds[Len(ds)] = 0
    THEN DropTrailingZeros(SubSeq(ds, 1, Len(ds) - 1))
    ELSE ds

(* The decimal texts float() and the CSV reader accept, over the characters
   used here: digits with at most one point and at least one digit. *)
IsNumText(s) ==
    /\ s /= <<>>
    /\ \A i \in 1..Len(s) : s[i] \in Digits \/ s[i] = "."
    /\ Cardinality({i \in 1..Len(s) : s[i] = "."}) <= 1
    /\ \E i \in 1..Len(s) : s[i] \in Digits

IsIntText(s) == IsNumText(s) /\ \A i \in 1..Len(s) : s[i] /= "."

(* the value of a decimal text: <<integer part, fraction digits...>> *)
NumValue(s) ==
    LET pts == {i \in 1..Len(s) : s[i] = "."}
        p   == IF pts = {} THEN Len(s) + 1 ELSE CHOOSE i \in pts : TRUE
        fr  == SubSeq(s, p + 1, Len(s))
    IN  <<DigitsValue(SubSeq(s, 1, p - 1))>>
            \o DropTrailingZeros(Tuple([i \in 1..Len(fr) |-> DigitVal(fr[i])]))

----------------------------------------------------------------------------
(* Cells *)

NA == [k |-> "na", s |-> <<>>, v |-> <<>>]
Str(s) == [k |-> "str", s |-> s, v |-> <<>>]
IntCell(n) == [k |-> "int", s |-> <<>>, v |-> <<n>>]
FloatCell(v) == [k |-> "float", s |-> <<>>, v |-> v]
DateCell(v) == [k |-> "date", s |-> <<>>, v |-> v]

IsNA(c) == c.k = "na"

(* str(x) of a cell, as the two lambdas of the ratings cleaning take it *)
CellText(c) ==
    CASE c.k = "str"   -> c.s
      [] c.k = "int"   -> NatDigits(c.v[1])
      [] c.k = "float" ->
            LET fr == SubSeq(c.v, 2, Len(c.v))
            IN  NatDigits(c.v[1]) \o <<".">>
                  \o (IF fr = <<>> THEN <<"0">>
                      ELSE Tuple([i \in 1..Len(fr) |-> DigitChar[fr[i] + 1]]))
      [] OTHER         -> <<"n", "a", "n">>

----------------------------------------------------------------------------
(* DataFrames: a frame is a sequence of rows; a row is a record with the
   field idx (the row's index label, kept by dropna and drop_duplicates) and
   one cell per column.  Columns of the input files that the code never names
   (Rank, Genres, Summary, ...) are not carried. *)

SalesTextColumns == {"Name", "Platform", "Genre", "Publisher"}
SalesFigureColumns ==
    {"NA_Sales", "EU_Sales", "JP_Sales", "Other_Sales", "Global_Sales"}
SalesColumns == SalesTextColumns \cup {"Year"} \cup SalesFigureColumns
GamesColumns == {"Title", "Release Date", "Rating", "Number of Reviews"}

Range(f) == {f[i] : i \in DOMAIN f}

RECURSIVE Pick(_, _, _)
(* the rows of a frame at the positions in keep, from position i on, in order *)
Pick(rows, keep, i) ==
    IF i > Len(rows) THEN <<>>
    ELSE (IF i \in keep THEN <<rows[i]>> ELSE <<>>) \o Pick(rows, keep, i + 1)

(* DataFrame.dropna(subset=...) *)
Dropna(rows, subset) ==
    Pick(rows, {i \in 1..Len(rows) : \A c \in subset : ~IsNA(rows[i][c])}, 1)

(* DataFrame.drop_duplicates(subset=cols): the first of equal rows is kept *)
DropDuplicates(rows, cols) ==
    Pick(rows,
         {i \in 1..Len(rows) :
            \A j \in 1..(i - 1) : \E c \in cols : rows[j][c] /= rows[i][c]},
         1)

(* The markers pandas.read_csv reads as a missing value (those that can be
   written with the characters used here). *)
NaTexts ==
    { <<>>, <<"N", "/", "A">>, <<"N", "A">>, <<"n", "/", "a">>,
      <<"n", "a", "n">>, <<"N", "a", "N">>, <<"n", "u", "l", "l">>,
      <<"N", "U", "L", "L">> }

(* one text as a number, or NA: pd.to_numeric(..., errors='coerce') on a cell *)
AsNumber(c) ==
    CASE c.k \in {"int", "float"} -> c
      [] c.k = "str" /\ IsNumText(c.s) ->
            IF IsIntText(c.s) THEN IntCell(DigitsValue(c.s))
            ELSE FloatCell(NumValue(c.s))
      [] OTHER -> NA

(* A numeric column has one dtype: int64 when every cell is an integer,
   float64 as soon as one cell is missing or has a point. *)
NumericColumn(cells) ==
    LET allint == \A i \in 1..Len(cells) : cells[i].k = "int"
    IN  Tuple([i \in 1..Len(cells) |->
                  IF allint \/ IsNA(cells[i]) THEN cells[i]
                  ELSE FloatCell(cells[i].v)])

(* pd.to_numeric(df[c], errors='coerce') *)
ToNumeric(rows, c) ==
    LET col == NumericColumn(Tuple([i \in 1..Len(rows) |-> AsNumber(rows[i][c])]))
    IN  Tuple([i \in 1..Len(rows) |-> [rows[i] EXCEPT ![c] = col[i]]])

(* Does read_csv give column c of the file a numeric dtype?  It does when the
   file has rows and every cell is missing or a number. *)
ReadsNumeric(csv, c) ==
    /\ Len(csv) > 0
    /\ \A i \in 1..Len(csv) : csv[i][c] \in NaTexts \/ IsNumText(csv[i][c])

(* pd.read_csv: lines 13-14 *)
ReadCsv(csv, cols) ==
    LET Cell(t) == IF t \in NaTexts THEN NA ELSE Str(t)
        Col(c)  == IF ReadsNumeric(csv, c)
                   THEN NumericColumn(
                          Tuple([i \in 1..Len(csv) |-> AsNumber(Cell(csv[i][c]))]))
                   ELSE Tuple([i \in 1..Len(csv) |-> Cell(csv[i][c])])
        frame   == Record([c \in cols |-> Col(c)])
    IN  Tuple([i \in 1..Len(csv) |->
                  Record([c \in cols \cup {"idx"} |->
                             IF c = "idx" THEN i - 1 ELSE frame[c][i]])])

(* Series.str.lower().str.strip() on column c *)
LowerStrip(rows, c) ==
    Tuple([i \in 1..Len(rows) |->
        [rows[i] EXCEPT ![c] = IF @.k = "str" THEN Str(Strip(Lower(@.s))) ELSE @]])

RECURSIVE Over(_, _, _)
(* Op(rows, c) applied for every column c of a set, one column after another *)
Over(Op(_, _), rows, cols) ==
    IF cols = {} THEN rows
    ELSE LET c == CHOOSE x \in cols : TRUE
         IN  Over(Op, Op(rows, c), cols \ {c})

----------------------------------------------------------------------------
(* Dates: pd.to_datetime(..., format="%b %d, %Y", errors='coerce') *)

MonthNames ==
    << <<"j","a","n">>, <<"f","e","b">>, <<"m","a","r">>, <<"a","p","r">>,
       <<"m","a","y">>, <<"j","u","n">>, <<"j","u","l">>, <<"a","u","g">>,
       <<"s","e","p">>, <<"o","c","t">>, <<"n","o","v">>, <<"d","e","c">> >>

IsLeap(y) == (y % 4 = 0 /\ y % 100 /= 0) \/ y % 400 = 0

DaysIn(m, y) ==
    IF m = 2 THEN (IF IsLeap(y) THEN 29 ELSE 28)
    ELSE IF m \in {4, 6, 9, 11} THEN 30 ELSE 31

AllDigits(s) == s /= <<>> /\ \A i \in 1..Len(s) : s[i] \in Digits

(* <<year, month, day>> of a text in the format "%b %d, %Y", or <<>> *)
ParseDate(s) ==
    LET n == Len(s)
        commas == {i \in 1..n : s[i] = ","}
        p == IF commas = {} THEN 0 ELSE CHOOSE i \in commas : TRUE
        mon == IF n >= 3 THEN Lower(SubSeq(s, 1, 3)) ELSE <<>>
        ok == /\ Cardinality(commas) = 1
              /\ p \in {6, 7}
              /\ n = p + 5
              /\ \E m \in 1..12 : MonthNames[m] = mon
              /\ s[4] = " "
              /\ AllDigits(SubSeq(s, 5, p - 1))
              /\ s[p + 1] = " "
              /\ AllDigits(SubSeq(s, p + 2, n))
    IN  IF ~ok THEN <<>>
        ELSE LET m == CHOOSE x \in 1..12 : MonthNames[x] = mon
                 d == DigitsValue(SubSeq(s, 5, p - 1))
                 y == DigitsValue(SubSeq(s, p + 2, n))
             IN  IF d >= 1 /\ d <= DaysIn(m, y) /\ y >= 1 THEN <<y, m, d>>
                 ELSE <<>>

ToDatetime(rows, c) ==
    Tuple([i \in 1..Len(rows) |->
        [rows[i] EXCEPT ![c] =
            IF @.k = "str" /\ ParseDate(@.s) /= <<>> THEN DateCell(ParseDate(@.s))
            ELSE NA]])

----------------------------------------------------------------------------
(* load_and_clean_data: the sales file, lines 20-30 *)

SalesRequired == {"Year", "Publisher", "Name", "Platform", "Genre"}
SalesLowered == {"Platform", "Genre", "Publisher"}

(* lines 20-21: rows with a missing required cell go, then exact duplicates *)
SalesDeduped(frame) == DropDuplicates(Dropna(frame, SalesRequired), SalesColumns)

(* line 22: .astype('Int64') refuses a number with a fraction *)
YearCastRaises(rows) ==
    \E i \in 1..Len(rows) : rows[i]["Year"].k = "float" /\ Len(rows[i]["Year"].v) > 1

(* line 22: pd.to_numeric(..., errors='coerce').astype('Int64') *)
YearToInt64(rows) ==
    LET num == ToNumeric(rows, "Year")
    IN  Tuple([i \in 1..Len(num) |->
            [num[i] EXCEPT !["Year"] = IF @.k = "float" THEN IntCell(@.v[1]) ELSE @]])

(* line 23 *)
SalesDropBadYear(rows) == Dropna(rows, {"Year"})

(* lines 25-27 *)
SalesDropBadFigures(rows) ==
    Dropna(Over(ToNumeric, rows, SalesFigureColumns), SalesFigureColumns)

(* lines 28-30: .str on a column that is not text raises AttributeError *)
StrAccessorRaises(csv, cols) == \E c \in cols : ReadsNumeric(csv, c)

(* The cleaned sales frame (without game_id), and the exception that ends
   the cleaning if one is raised. *)
CleanSales(csv) ==
    LET deduped == SalesDeduped(ReadCsv(csv, SalesColumns))
    IN  IF YearCastRaises(ToNumeric(deduped, "Year"))
        THEN [crash |-> "TypeError", rows |-> <<>>]
        ELSE IF StrAccessorRaises(csv, SalesLowered)
        THEN [crash |-> "AttributeError", rows |-> <<>>]
        ELSE [crash |-> "none",
              rows |-> Over(LowerStrip,
                            SalesDropBadFigures(SalesDropBadYear(YearToInt64(deduped))),
                            SalesLowered)]

----------------------------------------------------------------------------
(* load_and_clean_data: the ratings file, lines 33-44 *)

GamesRequired == {"Rating", "Release Date", "Number of Reviews"}

(* lines 33-35: what is left of str(x) after every character that is no
   digit and no point is removed *)
RatingDigits(c) == KeepDigitsAndPoint(CellText(c))

(* line 34: float() of a non-empty text that is no number raises ValueError *)
RatingRaises(rows) ==
    \E i \in 1..Len(rows) :
        RatingDigits(rows[i]["Rating"]) /= <<>>
        /\ ~IsNumText(RatingDigits(rows[i]["Rating"]))

(* lines 33-35 *)
ExtractRating(rows) ==
    Tuple([i \in 1..Len(rows) |->
        [rows[i] EXCEPT !["Rating"] =
            IF RatingDigits(@) = <<>> THEN NA
            ELSE FloatCell(NumValue(RatingDigits(@)))]])

(* Variant: duplicates removed on the text as read, the rating extracted
   afterwards. *)
GamesDeduped_RawFirst(frame) ==
    Dropna(ExtractRating(DropDuplicates(Dropna(frame, GamesRequired), GamesColumns)),
           GamesRequired)

(* lines 33-37: the rating is extracted first; then rows with a missing
   required cell go, then exact duplicates *)
GamesDeduped(frame) ==
    DropDuplicates(Dropna(ExtractRating(frame), GamesRequired), GamesColumns)

(* lines 39-42 *)
ExtractReviews(rows) ==
    Tuple([i \in 1..Len(rows) |->
        [rows[i] EXCEPT !["Number of Reviews"] =
            IF KeepDigits(CellText(@)) = <<>> THEN NA
            ELSE IntCell(DigitsValue(KeepDigits(CellText(@))))]])

(* Variant: line 43 left out. *)
GamesDropUnparsed_Kept(rows) == rows

(* line 43 *)
GamesDropUnparsed(rows) == Dropna(rows, {"Release Date", "Number of Reviews"})

CleanGames(csv) ==
    LET frame == ReadCsv(csv, GamesColumns)
    IN  IF RatingRaises(frame)
        THEN [crash |-> "ValueError", rows |-> <<>>]
        ELSE IF StrAccessorRaises(csv, {"Title"})
        THEN [crash |-> "AttributeError", rows |-> <<>>]
        ELSE [crash |-> "none",
              rows |-> LowerStrip(
                         GamesDropUnparsed(
                           ExtractReviews(ToDatetime(GamesDeduped(frame), "Release Date"))),
                         "Title")]

----------------------------------------------------------------------------
(* lines 47-48: one uuid4 per row.  Two calls of uuid4 are taken never to
   return the same value: the identifiers are numbered as they are drawn. *)

SalesIds(n) == Tuple([i \in 1..n |-> i])
(* Variant: the identifiers of the ratings rows drawn from the start again. *)
GamesIds_FromOne(n, m) == Tuple([i \in 1..m |-> i])
GamesIds(n, m) == Tuple([i \in 1..m |-> n + i])

WithColumn(r, name, val) ==
    Record([c \in DOMAIN r \cup {name} |-> IF c = name THEN val ELSE r[c]])

WithIds(rows, ids) ==
    Tuple([i \in 1..Len(rows) |-> WithColumn(rows[i], "game_id", ids[i])])

----------------------------------------------------------------------------
(* The store: the tables of video_games.db.  A table is a record
   [exists, cols, key, rows]; what is in db is committed. *)

TableNames == {"games", "sales_data", "ratings_data", "legacy"}
LoadedTables == {"games", "sales_data", "ratings_data"}

NoTable == [exists |-> FALSE, cols |-> {}, key |-> "", rows |-> <<>>]

(* lines 66-72, 76-92, 96-105: the declared columns and primary keys *)
DeclaredColumns(t) ==
    CASE t = "games" -> {"game_id", "title", "release_date"}
      [] t = "sales_data" ->
            {"rank", "game_id", "name", "platform", "year", "genre", "publisher",
             "na_sales", "eu_sales", "jp_sales", "other_sales", "global_sales"}
      [] t = "ratings_data" ->
            {"game_id", "rating", "number_of_reviews", "genres", "summary"}
      [] OTHER -> {}

DeclaredKey(t) == IF t = "sales_data" THEN "rank" ELSE "game_id"

EmptyTable(t) ==
    [exists |-> TRUE, cols |-> DeclaredColumns(t), key |-> DeclaredKey(t), rows |-> <<>>]

(* lines 65-105: the six statements, in order *)
StatementKind(n) == IF n % 2 = 0 THEN "drop" ELSE "create"
StatementTable(n) ==
    IF n < 2 THEN "games" ELSE IF n < 4 THEN "sales_data" ELSE "ratings_data"

(* Variant: no DROP TABLE, and CREATE TABLE IF NOT EXISTS. *)
ExecStatement_NoDrop(d, n) ==
    IF StatementKind(n) = "drop" \/ d[StatementTable(n)].exists
    THEN d
    ELSE [d EXCEPT ![StatementTable(n)] = EmptyTable(StatementTable(n))]

(* One statement run on the store.  sqlite3 opens a transaction only before
   an INSERT, UPDATE, DELETE or REPLACE, so DROP TABLE and CREATE TABLE take
   effect, and are durable, as they run. *)
ExecStatement(d, n) ==
    IF StatementKind(n) = "drop"
    THEN [d EXCEPT ![StatementTable(n)] = NoTable]
    ELSE [d EXCEPT ![StatementTable(n)] = EmptyTable(StatementTable(n))]

(* SQLite matches column names without regard to case *)
SqlName(c) ==
    CASE c = "Name" -> "name"
      [] c = "Platform" -> "platform"
      [] c = "Year" -> "year"
      [] c = "Genre" -> "genre"
      [] c = "Publisher" -> "publisher"
      [] c = "NA_Sales" -> "na_sales"
      [] c = "EU_Sales" -> "eu_sales"
      [] c = "JP_Sales" -> "jp_sales"
      [] c = "Other_Sales" -> "other_sales"
      [] c = "Global_Sales" -> "global_sales"
      [] c = "Title" -> "title"
      [] c = "Release Date" -> "release date"
      [] c = "Rating" -> "rating"
      [] c = "Number of Reviews" -> "number of reviews"
      [] OTHER -> c

(* DataFrame.to_sql(..., if_exists='append') names every column of the frame
   in its INSERT statement; the statement is refused when the table lacks one. *)
ColumnsFit(frameCols, t) ==
    \A c \in frameCols : SqlName(c) \in DeclaredColumns(t)

(* Variant: games built from the ratings rows alone. *)
GamesCombined_RatingsOnly(dfs, dfg) ==
    Tuple([i \in 1..Len(dfg) |->
        [game_id |-> dfg[i]["game_id"], title |-> dfg[i]["Title"],
         release_date |-> dfg[i]["Release Date"]]])

(* lines 110-119 *)
GamesCombined(dfs, dfg) ==
    LET ReleaseDate(g) ==
            IF \E j \in 1..Len(dfg) : dfg[j]["game_id"] = g
            THEN dfg[CHOOSE j \in 1..Len(dfg) :
                        /\ dfg[j]["game_id"] = g
                        /\ \A h \in 1..(j - 1) : dfg[h]["game_id"] /= g]["Release Date"]
            ELSE NA
        both == [i \in 1..Len(dfs) |->
                    [game_id |-> dfs[i]["game_id"], title |-> dfs[i]["Name"]]]
                \o [i \in 1..Len(dfg) |->
                    [game_id |-> dfg[i]["game_id"], title |-> dfg[i]["Title"]]]
    IN  DropDuplicates(
            Tuple([i \in 1..Len(both) |->
                [game_id |-> both[i].game_id, title |-> both[i].title,
                 release_date |-> ReleaseDate(both[i].game_id)]]),
            {"game_id"})

(* the rows of sales_data that line 123 inserts: rank is not in the frame,
   so SQLite numbers the rows *)
SalesTableRows(dfs) ==
    Tuple([i \in 1..Len(dfs) |->
        Record([c \in DeclaredColumns("sales_data") |->
            IF c = "rank" THEN i
            ELSE dfs[i][CHOOSE f \in DOMAIN dfs[i] : SqlName(f) = c]])])

(* A table's key holds no value twice *)
KeyUnique(rows, key) ==
    \A i, j \in 1..Len(rows) : rows[i][key] = rows[j][key] => i = j

----------------------------------------------------------------------------
(* The input files explored: a well-formed row of each file, and rows that
   differ from it in one cell. *)

S0 == [Name |-> <<"z">>, Platform |-> <<" ", "W", "i", "i">>,
       Year |-> <<"2", "0", "0", "6">>, Genre |-> <<"S", "p">>,
       Publisher |-> <<"N", "i", " ">>, NA_Sales |-> <<"1", ".", "5">>,
       EU_Sales |-> <<"2">>, JP_Sales |-> <<"0", ".", "5">>,
       Other_Sales |-> <<"0">>, Global_Sales |-> <<"4">>]

SalesRows ==
    { S0,
      [S0 EXCEPT !.Name = <<"y">>],
      [S0 EXCEPT !.Name = <<>>],
      [S0 EXCEPT !.Year = <<"2", "0", "0", "6", ".", "0">>],
      [S0 EXCEPT !.Year = <<"t", "b", "d">>],
      [S0 EXCEPT !.JP_Sales = <<"x">>] }

G0 == [Title |-> <<" ", "Z">>,
       Rating |-> <<"4", ".", "5">>,
       Reviews |-> <<"1", "2", "k">>,
       Date |-> <<"N", "o", "v", " ", "3", ",", " ", "2", "0", "0", "6">>]

GamesTexts ==
    { G0,
      [G0 EXCEPT !.Title = <<"Y">>],
      [G0 EXCEPT !.Rating = <<"4", ".", "5", " ", "s">>],
      [G0 EXCEPT !.Rating = <<"4", ".", "5", ".", "1">>],
      [G0 EXCEPT !.Rating = <<"t", "b", "d">>],
      [G0 EXCEPT !.Reviews = <<"1", "2">>],
      [G0 EXCEPT !.Reviews = <<"k">>],
      [G0 EXCEPT !.Reviews = <<>>],
      [G0 EXCEPT !.Date = <<"N", "o", "v", " ", "0", "3", ",", " ", "2", "0", "0", "6">>],
      [G0 EXCEPT !.Date = <<"F", "e", "b", " ", "3", "0", ",", " ", "2", "0", "0", "6">>],
      [G0 EXCEPT !.Date = <<"2", "0", "0", "6", "-", "1", "1", "-", "0", "3">>] }

(* a row of the ratings file under the file's column names *)
GamesRow(g) ==
    Record([c \in GamesColumns |->
        CASE c = "Title" -> g.Title
          [] c = "Rating" -> g.Rating
          [] c = "Number of Reviews" -> g.Reviews
          [] OTHER -> g.Date])

GamesRows == {GamesRow(g) : g \in GamesTexts}

Frames(rows, n) == UNION {[1..k -> rows] : k \in 0..n}

BaseSales == <<S0, [S0 EXCEPT !.Name = <<"y">>]>>
BaseGames == <<GamesRow(G0), GamesRow([G0 EXCEPT !.Title = <<"Y">>])>>

(* What video_games.db may hold before the run: nothing; the three tables of
   an earlier load; or tables made by something else. *)
OldRow(cols, id) ==
    Record([c \in cols |-> IF c \in {"rank", "game_id", "id"} THEN id ELSE NA])

OldTable(t) ==
    [EmptyTable(t) EXCEPT !.rows = <<OldRow(DeclaredColumns(t), 0)>>]

EmptyStore == [t \in TableNames |-> NoTable]

PreviousStore ==
    [t \in TableNames |-> IF t \in LoadedTables THEN OldTable(t) ELSE NoTable]

ForeignStore ==
    [t \in TableNames |->
        CASE t = "games" ->
                [exists |-> TRUE, cols |-> {"id"}, key |-> "id",
                 rows |-> <<OldRow({"id"}, 0)>>]
          [] t = "legacy" ->
                [exists |-> TRUE, cols |-> {"id", "score"}, key |-> "id",
                 rows |-> <<OldRow({"id", "score"}, 0)>>]
          [] OTHER -> NoTable]

PriorStores == {EmptyStore, PreviousStore, ForeignStore}

----------------------------------------------------------------------------
(* The run *)

Init ==
    /\ pc = "main"
    /\ \/ csv_vgsales \in Frames(SalesRows, MaxSales) /\ csv_games = BaseGames
       \/ csv_vgsales = BaseSales /\ csv_games \in Frames(GamesRows, MaxGames)
    /\ prior \in PriorStores
    /\ db = prior
    /\ read_error = "none"
    /\ crash = "none"
    /\ df_vgsales = <<>>
    /\ df_games = <<>>
    /\ conn = "unbound"
    /\ acquired = 0
    /\ closes = 0
    /\ stmt = 0
    /\ failed = "none"
    /\ exc = "none"
    /\ exit_code = -1
    /\ shown = {}

(* lines 12-17: what reading the two files can end in.  FileNotFoundError is
   caught, reported and followed by sys.exit(1); any other exception of
   read_csv (a file that cannot be opened or parsed) is not caught and ends
   the process with a traceback and status 1. *)
FileNotFound == {"vgsales.csv not found", "games.csv not found"}
ReadErrors == {"none", "vgsales.csv unreadable", "games.csv unreadable"} \cup FileNotFound

(* Variant: the run goes on after a failed read. *)
AfterRead_Continue(err) == "clean"

(* where the run goes after the reads of lines 13-14 *)
AfterRead(err) == IF err = "none" THEN "clean" ELSE "exit"

(* line 140 with lines 7-51 *)
LoadAndClean ==
    /\ pc = "main"
    /\ \E err \in ReadErrors :
        LET sales == CleanSales(csv_vgsales)
            games == IF sales.crash = "none" THEN CleanGames(csv_games)
                     ELSE [crash |-> sales.crash, rows |-> <<>>]
        IN  /\ read_error' = err
            /\ IF AfterRead(err) = "exit"
               THEN /\ pc' = "exit"
                    /\ exit_code' = 1
                    /\ shown' = IF err \in FileNotFound
                                THEN {"Error: A required file was not found"}
                                ELSE {"Traceback"}
                    /\ UNCHANGED <<crash, df_vgsales, df_games>>
               ELSE IF games.crash /= "none"
               THEN /\ pc' = "exit"
                    /\ exit_code' = 1
                    /\ shown' = {"Traceback"}
                    /\ crash' = games.crash
                    /\ UNCHANGED <<df_vgsales, df_games>>
               ELSE /\ pc' = "connect"
                    /\ df_vgsales' = WithIds(sales.rows, SalesIds(Len(sales.rows)))
                    /\ df_games' = WithIds(games.rows,
                                           GamesIds(Len(sales.rows), Len(games.rows)))
                    /\ UNCHANGED <<crash, exit_code, shown>>
    /\ UNCHANGED <<csv_vgsales, csv_games, conn, acquired, closes, stmt, prior, db,
                   failed, exc>>


(* What an operation on the store can end in: it succeeds; sqlite3 raises a
   sqlite3.Error (the file cannot be opened, the disk is full, the database
   is locked or read-only); or, inside to_sql, an exception that is no
   sqlite3.Error is raised (pandas reports a failed table lookup as its own
   DatabaseError). *)
StoreOutcomes == {"ok", "sqlite3.Error"}
ToSqlOutcomes == {"ok", "sqlite3.Error", "OtherError"}

(* line 131 catches sqlite3.Error only; anything else goes to line 134 *)
HandlerFor(outcome) == IF outcome = "sqlite3.Error" THEN "except" ELSE "finally"

(* line 60, ending in one of the outcomes given *)
Connect(outcomes) ==
    /\ pc = "connect"
    /\ \E outcome \in outcomes \cap StoreOutcomes :
          IF outcome = "ok"
          THEN /\ conn' = "open"
               /\ acquired' = acquired + 1
               /\ pc' = "ddl"
               /\ UNCHANGED <<failed, exc>>
          ELSE /\ failed' = "connect"
               /\ exc' = outcome
               /\ pc' = HandlerFor(outcome)
               /\ UNCHANGED <<conn, acquired>>
    /\ UNCHANGED <<csv_vgsales, csv_games, read_error, crash, df_vgsales, df_games,
                   closes, stmt, prior, db, exit_code, shown>>

(* lines 65-105, one statement at a time *)
ExecDDL(outcomes) ==
    /\ pc = "ddl"
    /\ \E outcome \in outcomes \cap StoreOutcomes :
          IF outcome = "ok"
          THEN /\ db' = ExecStatement(db, stmt)
               /\ stmt' = stmt + 1
               /\ pc' = IF stmt = 5 THEN "insert_games" ELSE "ddl"
               /\ UNCHANGED <<failed, exc>>
          ELSE /\ failed' = "schema"
               /\ exc' = outcome
               /\ pc' = HandlerFor(outcome)
               /\ UNCHANGED <<db, stmt>>
    /\ UNCHANGED <<csv_vgsales, csv_games, read_error, crash, df_vgsales, df_games,
                   conn, acquired, closes, prior, exit_code, shown>>

(* DataFrame.to_sql(t, conn, if_exists='append', index=False) of the rows
   given, whose frame has the columns frameCols.  pandas inserts nothing for
   a frame without rows; otherwise it inserts all rows in a transaction of its
   own, which it commits, or rolls back when the insert is refused. *)
ToSql(t, rows, frameCols, next, outcomes) ==
    \E outcome \in outcomes \cap ToSqlOutcomes :
        LET refused == /\ Len(rows) > 0
                       /\ \/ ~ColumnsFit(frameCols, t)
                          \/ ~KeyUnique(db[t].rows \o rows, db[t].key)
            result == IF outcome = "ok" /\ refused THEN "sqlite3.Error" ELSE outcome
        IN  IF result = "ok"
            THEN /\ db' = [db EXCEPT ![t].rows = @ \o rows]
                 /\ pc' = next
                 /\ UNCHANGED <<failed, exc>>
            ELSE /\ failed' = t
                 /\ exc' = result
                 /\ pc' = HandlerFor(result)
                 /\ UNCHANGED db

(* lines 110-120 *)
InsertGames(outcomes) ==
    /\ pc = "insert_games"
    /\ ToSql("games", GamesCombined(df_vgsales, df_games),
             {"game_id", "title", "release_date"}, "insert_sales", outcomes)
    /\ UNCHANGED <<csv_vgsales, csv_games, read_error, crash, df_vgsales, df_games,
                   conn, acquired, closes, stmt, prior, exit_code, shown>>

(* line 123 *)
InsertSales(outcomes) ==
    /\ pc = "insert_sales"
    /\ ToSql("sales_data", SalesTableRows(df_vgsales),
             SalesColumns \cup {"game_id"}, "insert_ratings", outcomes)
    /\ UNCHANGED <<csv_vgsales, csv_games, read_error, crash, df_vgsales, df_games,
                   conn, acquired, closes, stmt, prior, exit_code, shown>>

(* line 126: the frame still has the columns Title, Release Date and Number
   of Reviews, which ratings_data does not declare *)
InsertRatings(outcomes) ==
    /\ pc = "insert_ratings"
    /\ ToSql("ratings_data", df_games, GamesColumns \cup {"game_id"}, "commit", outcomes)
    /\ UNCHANGED <<csv_vgsales, csv_games, read_error, crash, df_vgsales, df_games,
                   conn, acquired, closes, stmt, prior, exit_code, shown>>

(* lines 128-129: every insert was committed by to_sql already, so the
   commit has nothing left to make durable *)
Commit ==
    /\ pc = "commit"
    /\ pc' = "finally"
    /\ shown' = shown \cup {"All data inserted successfully!"}
    /\ UNCHANGED <<csv_vgsales, csv_games, read_error, crash, df_vgsales, df_games,
                   conn, acquired, closes, stmt, prior, db, failed, exc, exit_code>>

(* lines 131-133: the message, then conn.rollback().  When connect itself
   raised, conn is not bound and the handler raises UnboundLocalError.  The
   rollback finds no open transaction: the statements of lines 65-105 ran
   outside one and to_sql ended its own. *)
Except ==
    /\ pc = "except"
    /\ shown' = shown \cup {"Error during database setup"}
    /\ exc' = IF conn = "unbound" THEN "UnboundLocalError" ELSE "none"
    /\ pc' = "finally"
    /\ UNCHANGED <<csv_vgsales, csv_games, read_error, crash, df_vgsales, df_games,
                   conn, acquired, closes, stmt, prior, db, failed, exit_code>>

(* Variant: close() called whether or not conn is bound. *)
ConnBound_Always(c) == TRUE

(* line 135: 'conn' in locals() *)
ConnBound(c) == c /= "unbound"

(* lines 134-137, then the end of the function: it returns, and the process
   ends with status 0, or the exception still pending leaves it, and the
   process ends with a traceback and status 1 *)
Finally ==
    /\ pc = "finally"
    /\ IF ConnBound(conn)
       THEN /\ conn' = "closed"
            /\ closes' = closes + 1
            /\ shown' = shown \cup {"SQLite connection closed."}
                          \cup (IF exc = "none" THEN {} ELSE {"Traceback"})
       ELSE /\ shown' = shown \cup (IF exc = "none" THEN {} ELSE {"Traceback"})
            /\ UNCHANGED <<conn, closes>>
    /\ pc' = IF exc = "none" THEN "returned" ELSE "raised"
    /\ exit_code' = IF exc = "none" THEN 0 ELSE 1
    /\ UNCHANGED <<csv_vgsales, csv_games, read_error, crash, df_vgsales, df_games,
                   acquired, stmt, prior, db, failed, exc>>

(* The run, each operation on the store ending in one of the outcomes given *)
Run(outcomes) ==
    \/ LoadAndClean
    \/ Connect(outcomes)
    \/ ExecDDL(outcomes)
    \/ InsertGames(outcomes)
    \/ InsertSales(outcomes)
    \/ InsertRatings(outcomes)
    \/ Commit
    \/ Except
    \/ Finally

Next == Run(ToSqlOutcomes)

Spec == Init /\ [][Next]_vars

(* The run on a store that never fails of its own: an operation fails only
   when the statement itself is refused. *)
NextHealthy == Run({"ok"})

SpecHealthy == Init /\ [][NextHealthy]_vars

----------------------------------------------------------------------------
(* Properties *)

Cleaned == pc \notin {"main", "exit"}
Done == pc \in {"returned", "raised"}
SchemaDone == stmt = 6

GameIdsOf(rows) == {rows[i]["game_id"] : i \in 1..Len(rows)}
KeptIdx(rows) == {rows[i]["idx"] : i \in 1..Len(rows)}

(* C1: a run of setup_sqlite_database is all or nothing: when a step of it
   failed, none of the three tables holds rows of this run at its end. *)
C1_AllOrNothing ==
    (Done /\ failed /= "none") =>
        \A t \in LoadedTables : ~(SchemaDone /\ db[t].rows /= <<>>)

(* C2: once the tables are recreated, every game_id in a row of sales_data
   or of ratings_data is the game_id of a row of games. *)
C2_ReferentiallyComplete ==
    SchemaDone =>
        \A t \in {"sales_data", "ratings_data"} :
            GameIdsOf(db[t].rows) \subseteq GameIdsOf(db["games"].rows)

C2_Witness ==
    /\ Done
    /\ Len(db["sales_data"].rows) = 2
    /\ Len(db["games"].rows) > 2

(* C3: the rows of the two cleaned frames all have different game_ids, and
   once games is filled it has one row per cleaned sales row plus one per
   cleaned ratings row, also when a sales row and a ratings row have the
   same title. *)
C3_UniqueIds ==
    Cleaned =>
        /\ Cardinality(GameIdsOf(df_vgsales) \cup GameIdsOf(df_games))
              = Len(df_vgsales) + Len(df_games)
        /\ (SchemaDone /\ pc /= "insert_games" /\ failed /= "games") =>
              Len(db["games"].rows) = Len(df_vgsales) + Len(df_games)

C3_Witness ==
    /\ pc = "insert_sales"
    /\ Len(db["games"].rows) = 4
    /\ \E i \in 1..Len(df_vgsales) : \E j \in 1..Len(df_games) :
          df_vgsales[i]["Name"] = df_games[j]["Title"]

ValidDate(v) ==
    /\ Len(v) = 3
    /\ v[2] \in 1..12
    /\ v[3] \in 1..DaysIn(v[2], v[1])

(* C4: every row load_and_clean_data returns has its required fields present
   and typed: the four texts of a sales row, an integer Year, five numeric
   sales figures; a numeric Rating, a valid Release Date and an integer
   Number of Reviews in a ratings row. *)
C4_RequiredFieldsTyped ==
    Cleaned =>
        /\ \A i \in 1..Len(df_vgsales) :
              /\ \A c \in SalesTextColumns : df_vgsales[i][c].k = "str"
              /\ df_vgsales[i]["Year"].k = "int"
              /\ \A c \in SalesFigureColumns : df_vgsales[i][c].k \in {"int", "float"}
        /\ \A i \in 1..Len(df_games) :
              /\ df_games[i]["Rating"].k = "float"
              /\ df_games[i]["Release Date"].k = "date"
              /\ ValidDate(df_games[i]["Release Date"].v)
              /\ df_games[i]["Number of Reviews"].k = "int"

C4_Witness ==
    /\ pc = "connect"
    /\ Len(df_vgsales) = 2
    /\ Len(csv_games) = 2
    /\ Len(df_games) = 1
    /\ \E i \in 1..2 : ParseDate(csv_games[i]["Release Date"]) = <<>>

(* C5: when both files can be read, load_and_clean_data returns: no row
   makes it raise. *)
C5_NoRowAborts == (pc /= "main" /\ read_error = "none") => crash = "none"

C7_MissingInputAborts ==
    read_error /= "none" =>
        /\ pc = "exit"
        /\ exit_code > 0
        /\ shown /= {}
        /\ df_vgsales = <<>> /\ df_games = <<>>
        /\ conn = "unbound" /\ acquired = 0 /\ stmt = 0
        /\ db = prior

C7_Witness ==
    /\ read_error = "games.csv not found"
    /\ pc = "exit"
    /\ prior = PreviousStore

(* C8: the connection is acquired at most once, before any statement, and
   closed exactly once when it was acquired, never otherwise, on every path
   to the end of setup_sqlite_database. *)
C8_ConnectionLifecycle ==
    /\ acquired <= 1
    /\ closes <= acquired
    /\ (conn = "closed") = (closes = 1)
    /\ stmt > 0 => acquired = 1
    /\ pc \in {"ddl", "insert_games", "insert_sales", "insert_ratings", "commit"}
          => (acquired = 1 /\ conn = "open")
    /\ Done => (closes = acquired /\ conn /= "open")

C8_Witness ==
    /\ pc = "raised"
    /\ exc = "OtherError"
    /\ acquired = 1
    /\ closes = 1

(* C9: whatever fails in setup_sqlite_database, the function logs it,
   releases the connection and returns: no exception leaves it. *)
C9_FailureCaught ==
    (Done /\ failed /= "none") =>
        /\ pc = "returned"
        /\ exit_code = 0
        /\ "Error during database setup" \in shown

(* the number line 33 extracts from a rating as read, <<>> when none *)
RatingValue(c) ==
    IF RatingDigits(c) = <<>> THEN <<>> ELSE NumValue(RatingDigits(c))

SameButRating(a, b) ==
    /\ \A c \in GamesColumns \ {"Rating"} : a[c] = b[c]
    /\ a["Rating"] /= b["Rating"]
    /\ RatingValue(a["Rating"]) = RatingValue(b["Rating"])
    /\ RatingValue(a["Rating"]) /= <<>>

(* C10, as claimed: when load_and_clean_data has returned, two ratings rows
   that differ only in the text of their rating, both texts giving the same
   number, have both survived. *)
C10_RawRatingCompared ==
    pc = "connect" =>
        LET frame == ReadCsv(csv_games, GamesColumns)
        IN  \A i, j \in 1..Len(frame) :
                (i < j /\ SameButRating(frame[i], frame[j]) /\ (i - 1) \in KeptIdx(df_games))
                    => (j - 1) \in KeptIdx(df_games)

(* a row as read that no later step drops for a cell of its own *)
GamesRowClean(r) ==
    /\ \A c \in GamesRequired : ~IsNA(r[c])
    /\ RatingDigits(r["Rating"]) /= <<>>
    /\ r["Release Date"].k = "str" /\ ParseDate(r["Release Date"].s) /= <<>>
    /\ KeepDigits(CellText(r["Number of Reviews"])) /= <<>>

SalesRowClean(r) ==
    /\ \A c \in SalesRequired : ~IsNA(r[c])
    /\ \A c \in SalesFigureColumns \cup {"Year"} : ~IsNA(AsNumber(r[c]))

GamesDuplicate(a, b) ==
    /\ \A c \in GamesColumns \ {"Rating"} : a[c] = b[c]
    /\ RatingValue(a["Rating"]) = RatingValue(b["Rating"])

(* C10, amended: when load_and_clean_data has returned, duplicates were
   removed before the Year is coerced, before
   the date is parsed and before the review count is extracted, but after
   the rating was extracted.  A ratings row that nothing else drops is removed
   exactly when an earlier row has the same extracted rating and the same
   other fields as read; a sales row that nothing else drops is removed
   exactly when an earlier row is equal to it as read. *)
C10_DedupAfterRating ==
    pc = "connect" =>
        LET gf == ReadCsv(csv_games, GamesColumns)
            sf == ReadCsv(csv_vgsales, SalesColumns)
        IN  /\ \A j \in 1..Len(gf) :
                  GamesRowClean(gf[j]) =>
                     (((j - 1) \in KeptIdx(df_games))
                        = (\A h \in 1..(j - 1) : ~GamesDuplicate(gf[h], gf[j])))
            /\ \A j \in 1..Len(sf) :
                  SalesRowClean(sf[j]) =>
                     (((j - 1) \in KeptIdx(df_vgsales))
                        = (\A h \in 1..(j - 1) : \E c \in SalesColumns : sf[h][c] /= sf[j][c]))

C10_Witness ==
    /\ pc = "connect"
    /\ Len(csv_games) = 2
    /\ SameButRating(ReadCsv(csv_games, GamesColumns)[1], ReadCsv(csv_games, GamesColumns)[2])
    /\ KeptIdx(df_games) = {0}

====
